---- MODULE Spec2Model ----
(***************************************************************************)
(* Model of the Roo memory-bank MCP server (src/src/index.ts).             *)
(*                                                                         *)
(* Text is a sequence of symbols.  A symbol is one character ("#", "\n",   *)
(* " ", "[", ...), except that a run of characters that no input of the    *)
(* model can split (a word of a template, a timestamp, a file-name stem)   *)
(* is written as one symbol.  String positions are 0-based, as in          *)
(* JavaScript.                                                             *)
(*                                                                         *)
(* One action is one run of the event loop: a handler runs from the point  *)
(* where it was called, or from the awaited filesystem call that just      *)
(* completed, up to its next await or its return.                          *)
(***************************************************************************)
EXTENDS Integers, Sequences, FiniteSets, TLC

----------------------------------------------------------------------------
(* Bounds of the model *)

MaxReq == 2      \* request slots (requests the transport can hold at once)
MaxOps == 2      \* tool calls received in one run
MaxClock == 1    \* seconds the clock can advance

----------------------------------------------------------------------------
(* JavaScript strings *)

NL == "\n"

IsWhitespace(c) == c \in {" ", NL}

\* s.slice(a, b) for 0 <= a, b
Slice(s, a, b) == SubSeq(s, a + 1, b)

\* does sub occur in s at 0-based position i
MatchesAt(s, sub, i) ==
    /\ i >= 0
    /\ i + Len(sub) <= Len(s)
    /\ \A k \in 1..Len(sub) : s[i + k] = sub[k]

RECURSIVE ScanFrom(_, _, _)
ScanFrom(s, sub, i) ==
    IF i + Len(sub) > Len(s) THEN -1
    ELSE IF MatchesAt(s, sub, i) THEN i
    ELSE ScanFrom(s, sub, i + 1)

\* faulty variant: the search ignores the position it is told to start from
IndexOfFromStart(s, sub, from) == ScanFrom(s, sub, 0)

\* s.indexOf(sub, from): the first position >= from where sub occurs, or -1
IndexOf(s, sub, from) == ScanFrom(s, sub, from)

RECURSIVE TrimEnd(_)
TrimEnd(s) ==
    IF s # <<>> /\ IsWhitespace(s[Len(s)]) THEN TrimEnd(SubSeq(s, 1, Len(s) - 1))
    ELSE s

RECURSIVE TrimStart(_)
TrimStart(s) ==
    IF s # <<>> /\ IsWhitespace(s[1]) THEN TrimStart(Tail(s))
    ELSE s

\* s.replace(pat, rep) with a string pattern: the first occurrence only
Replace(s, pat, rep) ==
    LET i == IndexOf(s, pat, 0)
    IN  IF i = -1 THEN s
        ELSE Slice(s, 0, i) \o rep \o Slice(s, i + Len(pat), Len(s))

\* s.endsWith(suf)
EndsWith(s, suf) == MatchesAt(s, suf, Len(s) - Len(suf))

----------------------------------------------------------------------------
(* JavaScript values an argument can hold *)

Undefined == [t |-> "undefined", s |-> <<>>]
Number7 == [t |-> "number", s |-> <<>>]       \* a non-zero number
Str(s) == [t |-> "string", s |-> s]

IsString(v) == v.t = "string"

\* how an argument stands against "a non-empty string"
Kind(v) ==
    CASE v.t = "undefined" -> "missing"
      [] v.t = "string" /\ v.s = <<>> -> "empty"
      [] v.t = "string" -> "ok"
      [] OTHER -> "not a string"

Truthy(v) ==
    CASE v.t = "undefined" -> FALSE
      [] v.t = "string" -> v.s # <<>>
      [] OTHER -> TRUE

----------------------------------------------------------------------------
(* Paths: a path is a sequence of segments, a segment a sequence of symbols *)

RECURSIVE SplitSegments(_, _)
\* name.split("/"), cur being the segment read so far
SplitSegments(name, cur) ==
    IF name = <<>> THEN <<cur>>
    ELSE IF Head(name) = "/" THEN <<cur>> \o SplitSegments(Tail(name), <<>>)
    ELSE SplitSegments(Tail(name), Append(cur, Head(name)))

RECURSIVE Normalize(_, _)
\* path.normalize: drops empty and "." segments, ".." removes the segment before it
Normalize(stack, segs) ==
    IF segs = <<>> THEN stack
    ELSE LET seg == Head(segs)
         IN  IF seg = <<>> \/ seg = <<".">> THEN Normalize(stack, Tail(segs))
             ELSE IF seg = <<"..">>
                  THEN Normalize(IF stack = <<>> THEN stack
                                 ELSE SubSeq(stack, 1, Len(stack) - 1), Tail(segs))
             ELSE Normalize(Append(stack, seg), Tail(segs))

\* path.join(base, name) for an absolute base
PathJoin(base, name) == Normalize(base, SplitSegments(name, <<>>))

Parent(p) == SubSeq(p, 1, Len(p) - 1)

MEMORY_BANK_DIR_NAME == <<"memory-bank">>
BASE_PATH == << <<"cwd">> >>
MEMORY_BANK_PATH == PathJoin(BASE_PATH, MEMORY_BANK_DIR_NAME)

----------------------------------------------------------------------------
(* Template registry *)

ProductContextName == <<"productContext", ".md">>
ActiveContextName == <<"activeContext", ".md">>
ProgressName == <<"progress", ".md">>
DecisionLogName == <<"decisionLog", ".md">>
SystemPatternsName == <<"systemPatterns", ".md">>

\* Object.entries(INITIAL_FILES): the names in insertion order
INITIAL_FILE_NAMES ==
    <<ProductContextName, ActiveContextName, ProgressName, DecisionLogName,
      SystemPatternsName>>

CanonicalNames == {INITIAL_FILE_NAMES[k] : k \in 1..Len(INITIAL_FILE_NAMES)}

TemplateOf(title, about) ==
    <<"#", " ">> \o title \o <<NL, NL, about, "...", NL, NL, "*">>

\* INITIAL_FILES[name] for a registered name
INITIAL_FILES(name) ==
    CASE name = ProductContextName ->
           TemplateOf(<<"Product Context">>, "This file provides a high-level overview")
      [] name = ActiveContextName ->
           TemplateOf(<<"Active Context">>, "This file tracks the project's current status")
      [] name = ProgressName ->
           TemplateOf(<<"Progress">>, "This file tracks the project's progress")
      [] name = DecisionLogName ->
           TemplateOf(<<"Decision Log">>,
                      "This file records architectural and implementation decisions")
      [] name = SystemPatternsName ->
           TemplateOf(<<"System Patterns", " ", "*", "Optional", "*">>,
                      "This file documents recurring patterns")

TimestampPlaceholder == <<"YYYY-MM-DD HH:MM:SS">>

----------------------------------------------------------------------------
(* Timestamps *)

\* new Date().toISOString() when the clock shows second n of the run
ToISOString(n) == <<"2025-01-01", "T", "00:00:0" \o ToString(n), ".000Z">>

\* .replace('T', ' ').substring(0, 19): date, blank and time are the first 19
\* characters, here the first three symbols
getCurrentTimestamp(n) == SubSeq(Replace(ToISOString(n), <<"T">>, <<" ">>), 1, 3)

\* `\n[${timestamp}] - ${entry}\n`
FormatEntry(timestamp, entry) ==
    <<NL, "[">> \o timestamp \o <<"]", " ", "-", " ">> \o entry \o <<NL>>

----------------------------------------------------------------------------
(* Section splice *)

NextHeaderMark == <<NL, "#", "#">>

\* faulty variant: the text before the insertion is not trimmed
SpliceWithoutTrim(fileContent, sectionHeader, formattedEntry, headerIndex) ==
    LET nextHeaderIndex ==
            ScanFrom(fileContent, NextHeaderMark, headerIndex + Len(sectionHeader))
        insertIndex ==
            IF nextHeaderIndex # -1 THEN nextHeaderIndex ELSE Len(fileContent)
    IN  Slice(fileContent, 0, insertIndex) \o <<NL>>
          \o TrimStart(formattedEntry)
          \o Slice(fileContent, insertIndex, Len(fileContent))

\* the text written when the header is found at headerIndex
SpliceAtHeader(fileContent, sectionHeader, formattedEntry, headerIndex) ==
    LET nextHeaderIndex ==
            IndexOf(fileContent, NextHeaderMark, headerIndex + Len(sectionHeader))
        insertIndex ==
            IF nextHeaderIndex # -1 THEN nextHeaderIndex ELSE Len(fileContent)
    IN  TrimEnd(Slice(fileContent, 0, insertIndex)) \o <<NL>>
          \o TrimStart(formattedEntry)
          \o Slice(fileContent, insertIndex, Len(fileContent))

\* faulty variant: the entry is trimmed at its start, as it is under a header found
HeaderAndEntryTrimmed(sectionHeader, formattedEntry) ==
    <<NL>> \o sectionHeader \o <<NL>> \o TrimStart(formattedEntry)

\* the text appended when the header is not found
HeaderAndEntry(sectionHeader, formattedEntry) ==
    <<NL>> \o sectionHeader \o <<NL>> \o formattedEntry

----------------------------------------------------------------------------
(* State *)

VARIABLES
    now,        \* the clock, in seconds
    dirExists,  \* whether MEMORY_BANK_PATH exists
    files,      \* the files on disk: path -> text, for the paths that exist
    pc,         \* per request slot: where its handler is suspended
    loc,        \* per request slot: the handler's local variables
    result,     \* per request slot: what the handler returned
    ops,        \* tool calls received so far
    last        \* history: the latest successful append_memory_bank_entry answered

vars == <<now, dirExists, files, pc, loc, result, ops, last>>

Req == 1..MaxReq

Exists(p) == p \in DOMAIN files

\* a request received is held in the first slot that is free
FreeSlot(r) == pc[r] = "idle" /\ \A q \in 1..(r - 1) : pc[q] # "idle"

\* the disk after path p is given text
WriteTo(p, text) == [q \in DOMAIN files \cup {p} |-> IF q = p THEN text ELSE files[q]]

NoLoc ==
    [tool |-> "none", fileName |-> <<>>, filePath |-> <<>>, entry |-> <<>>,
     sectionHeader |-> Undefined, brief |-> Undefined, timestamp |-> <<>>,
     formattedEntry |-> <<>>, fileContent |-> <<>>, headerIndex |-> -1,
     content |-> <<>>, i |-> 0, messages |-> <<>>,
     \* history: what the call was given and what it found
     given |-> FALSE, fileNameKind |-> "missing", entryKind |-> "missing",
     preDir |-> FALSE, preFiles |-> <<>>, written |-> <<>>]

NoResult ==
    [status |-> "none", isError |-> FALSE, message |-> <<>>, messages |-> <<>>,
     exists |-> FALSE, files |-> {}, content |-> <<>>]

\* { status: "success", ... }
Success(message, messages) ==
    [NoResult EXCEPT !.status = "success", !.message = message, !.messages = messages]

\* { status: "error", message }, isError: true
Failure(message) ==
    [NoResult EXCEPT !.status = "error", !.isError = TRUE, !.message = message]

\* the promise of an async handler that threw outside its try block
Rejected(message) ==
    [NoResult EXCEPT !.status = "rejected", !.message = message]

----------------------------------------------------------------------------
(* Inputs and initial disks *)

NotesName == <<"notes", ".md">>
EscapeName == <<"..", "/", "notes", ".md">>

DecisionHeader == <<"#", "#", " ", "Decision">>
TitleHeader == <<"#", " ", "Decision Log">>
\* a header that overlaps itself: put after the text "##\n" it occurs earlier
\* than where it was put
RepeatingHeader == <<"#", "#", NL, "#", "#">>

UserNotes ==
    DecisionHeader \o <<NL, "old note", " ", NL, NL, "#", "#", " ", "Other", NL, "more", NL>>
      \o DecisionHeader \o <<NL, "last">>

FileNameArgs ==
    {Undefined, Str(<<>>), Number7, Str(NotesName), Str(DecisionLogName), Str(EscapeName)}
EntryArgs == {Undefined, Str(<<>>), Number7, Str(<<"a">>), Str(<<NL, "#", "#">>)}
HeaderArgs == {Undefined, Str(<<>>), Number7, Str(DecisionHeader), Str(TitleHeader)}
BriefArgs == {Undefined, Str(<<"brief">>)}

\* request.params.arguments: absent, or an object with these properties
NoArguments == [given |-> FALSE, file_name |-> Undefined, entry |-> Undefined,
                section_header |-> Undefined, project_brief_content |-> Undefined]
Arguments(f, e, h, b) ==
    [given |-> TRUE, file_name |-> f, entry |-> e, section_header |-> h,
     project_brief_content |-> b]

AppendInputs ==
    {NoArguments} \cup
    {Arguments(f, e, h, Undefined) : f \in FileNameArgs, e \in EntryArgs, h \in HeaderArgs}
ReadInputs ==
    {NoArguments} \cup
    {Arguments(f, Undefined, Undefined, Undefined) : f \in FileNameArgs}
InitInputs ==
    {NoArguments} \cup
    {Arguments(Undefined, Undefined, Undefined, b) : b \in BriefArgs}

\* header-targeted calls on one file, for the study of the section splice
SpliceInputs ==
    {Arguments(Str(NotesName), e, Str(h), Undefined) :
         e \in {Str(<<"a">>), Str(<<NL, "#", "#">>)},
         h \in {DecisionHeader, RepeatingHeader}}

InBank(name) == PathJoin(MEMORY_BANK_PATH, name)

SpliceDisks ==
    { [dir |-> TRUE, files |-> (InBank(NotesName) :> text)] :
          text \in {UserNotes, <<"X", NL>>, <<"#", "#">>} }

InitialDisks ==
    { [dir |-> FALSE, files |-> <<>>],
      [dir |-> TRUE, files |-> <<>>],
      [dir |-> TRUE,
       files |-> (InBank(NotesName) :> UserNotes) @@ (InBank(<<"c", ".txt">>) :> <<"c">>)],
      [dir |-> TRUE, files |-> (InBank(DecisionLogName) :> <<"X", NL>>)] }

StartOn(disks) ==
    /\ now = 0
    /\ \E d \in disks : dirExists = d.dir /\ files = d.files
    /\ pc = [r \in Req |-> "idle"]
    /\ loc = [r \in Req |-> NoLoc]
    /\ result = [r \in Req |-> NoResult]
    /\ ops = 0
    /\ last = [valid |-> FALSE, filePath |-> <<>>, sectionHeader |-> <<>>,
               entry |-> <<>>, timestamp |-> <<>>, existed |-> FALSE,
               pre |-> <<>>, post |-> <<>>]

Init == StartOn(InitialDisks)

----------------------------------------------------------------------------
(* Helpers of the handlers *)

\* the handler of slot r returns: its promise settles with res
Return(r, res) ==
    /\ pc' = [pc EXCEPT ![r] = "done"]
    /\ result' = [result EXCEPT ![r] = res]

\* a write to p can succeed only if the directory holding p exists
ParentExists(p) == Parent(p) = MEMORY_BANK_PATH => dirExists

\* the text of the target file when the call was received ("" if it did not exist)
PreText(l) == IF l.filePath \in DOMAIN l.preFiles THEN l.preFiles[l.filePath] ELSE <<>>

CurrentText(p) == IF Exists(p) THEN files[p] ELSE <<>>

\* faulty variant: the type of sectionHeader is not tested
UsesHeaderIfTruthy(sectionHeader) == Truthy(sectionHeader)

\* sectionHeader && typeof sectionHeader === 'string'
UsesHeader(sectionHeader) == Truthy(sectionHeader) /\ IsString(sectionHeader)

\* the catch block of each operation: the message of its error result
InitFailure(l, err) == Failure(<<err>>)
AppendFailure(l, err) == Failure(<<"Failed to append to file ">> \o l.fileName \o <<": ", err>>)
ReadFailure(l, err) == Failure(<<"Failed to read file ">> \o l.fileName \o <<": ", err>>)

\* where a handler continues once ensureMemoryBankDir() has returned
AfterEnsurePc(l) ==
    IF l.tool = "initialize" THEN "init_access"
    ELSE IF UsesHeader(l.sectionHeader) THEN "append_read"
    ELSE "append_plain"

\* the error result when ensureMemoryBankDir() throws
EnsureFailure(l, err) ==
    IF l.tool = "initialize" THEN InitFailure(l, err) ELSE AppendFailure(l, err)

----------------------------------------------------------------------------
(* ensureMemoryBankDir *)

\* await fs.access(MEMORY_BANK_PATH) completes
EnsureAccess(r) ==
    /\ pc[r] = "ensure_access"
    /\ pc' = [pc EXCEPT ![r] = IF dirExists THEN AfterEnsurePc(loc[r]) ELSE "ensure_mkdir"]
    /\ UNCHANGED <<now, dirExists, files, loc, result, ops, last>>

\* await fs.mkdir(MEMORY_BANK_PATH, { recursive: true }) completes
EnsureMkdir(r) ==
    /\ pc[r] = "ensure_mkdir"
    /\ \E ok \in BOOLEAN :
         IF ok
         THEN /\ dirExists' = TRUE
              /\ pc' = [pc EXCEPT ![r] = AfterEnsurePc(loc[r])]
              /\ UNCHANGED result
         ELSE /\ Return(r, EnsureFailure(loc[r], "EACCES"))
              /\ UNCHANGED dirExists
    /\ UNCHANGED <<now, files, loc, ops, last>>

----------------------------------------------------------------------------
(* initializeMemoryBank *)

\* the handler is called: it runs to the await in ensureMemoryBankDir()
CallInitialize(r) ==
    /\ FreeSlot(r)
    /\ ops < MaxOps
    /\ \E input \in InitInputs :
         loc' = [loc EXCEPT ![r] =
                   [NoLoc EXCEPT !.tool = "initialize",
                                 \* input?.project_brief_content
                                 !.brief = IF input.given THEN input.project_brief_content
                                           ELSE Undefined,
                                 !.i = 1,
                                 !.preDir = dirExists,
                                 !.preFiles = files]]
    /\ pc' = [pc EXCEPT ![r] = "ensure_access"]
    /\ ops' = ops + 1
    /\ UNCHANGED <<now, dirExists, files, result, last>>

\* the loop moves to the next entry of INITIAL_FILES, or the handler returns
InitAdvance(r, l) ==
    IF l.i = Len(INITIAL_FILE_NAMES)
    THEN /\ loc' = [loc EXCEPT ![r] = l]
         /\ Return(r, Success(<<>>, l.messages))
    ELSE /\ loc' = [loc EXCEPT ![r] = [l EXCEPT !.i = l.i + 1]]
         /\ pc' = [pc EXCEPT ![r] = "init_access"]
         /\ UNCHANGED result

\* the content of a file that initialize creates
InitialContent(fileName, brief, timestamp) ==
    LET content == Replace(INITIAL_FILES(fileName), TimestampPlaceholder, timestamp)
    IN  IF fileName = ProductContextName /\ Truthy(brief)
        THEN Replace(content, <<"...">>,
                     <<"based on project brief:", NL, NL>> \o brief.s \o <<NL, NL, "...">>)
        ELSE content

\* faulty variant: every file is taken to be absent
NeverExists(filePath) == FALSE

\* await fs.access(filePath) does not throw
AlreadyExists(filePath) == Exists(filePath)

\* await fs.access(filePath) completes for the file the loop is at
InitAccess(r) ==
    /\ pc[r] = "init_access"
    /\ LET l == loc[r]
           fileName == INITIAL_FILE_NAMES[l.i]
           filePath == PathJoin(MEMORY_BANK_PATH, fileName)
       IN  IF AlreadyExists(filePath)
           THEN InitAdvance(r, [l EXCEPT !.messages =
                    Append(@, <<"File ">> \o fileName \o <<" already exists.">>)])
           ELSE /\ loc' = [loc EXCEPT ![r] =
                     [l EXCEPT !.fileName = fileName,
                               !.filePath = filePath,
                               !.content = InitialContent(fileName, l.brief,
                                                          getCurrentTimestamp(now))]]
                /\ pc' = [pc EXCEPT ![r] = "init_write"]
                /\ UNCHANGED result
    /\ UNCHANGED <<now, dirExists, files, ops, last>>

\* await fs.writeFile(filePath, content) completes
InitWrite(r) ==
    /\ pc[r] = "init_write"
    /\ LET l == loc[r]
       IN  \E ok \in BOOLEAN :
             IF ok /\ ParentExists(l.filePath)
             THEN /\ files' = WriteTo(l.filePath, l.content)
                  /\ InitAdvance(r, [l EXCEPT !.messages =
                         Append(@, <<"Created file: ">> \o l.fileName)])
             ELSE /\ Return(r, InitFailure(l, IF ok THEN "ENOENT" ELSE "EIO"))
                  /\ UNCHANGED <<files, loc>>
    /\ UNCHANGED <<now, dirExists, ops, last>>

----------------------------------------------------------------------------
(* checkMemoryBankStatus *)

CallCheckStatus(r) ==
    /\ FreeSlot(r)
    /\ ops < MaxOps
    /\ loc' = [loc EXCEPT ![r] = [NoLoc EXCEPT !.tool = "status",
                                               !.preDir = dirExists,
                                               !.preFiles = files]]
    /\ pc' = [pc EXCEPT ![r] = "status_access"]
    /\ ops' = ops + 1
    /\ UNCHANGED <<now, dirExists, files, result, last>>

\* { exists, files }
Status(exists, mdFiles) ==
    [NoResult EXCEPT !.status = "status", !.exists = exists, !.files = mdFiles]

\* await fs.access(MEMORY_BANK_PATH) completes
StatusAccess(r) ==
    /\ pc[r] = "status_access"
    /\ IF dirExists
       THEN pc' = [pc EXCEPT ![r] = "status_readdir"] /\ UNCHANGED result
       ELSE Return(r, Status(FALSE, {}))
    /\ UNCHANGED <<now, dirExists, files, loc, ops, last>>

\* the names fs.readdir(MEMORY_BANK_PATH) lists (in no particular order)
DirEntries == {p[Len(p)] : p \in {q \in DOMAIN files : Parent(q) = MEMORY_BANK_PATH}}

\* await fs.readdir(MEMORY_BANK_PATH) completes
StatusReaddir(r) ==
    /\ pc[r] = "status_readdir"
    /\ \E ok \in BOOLEAN :
         IF ok
         THEN Return(r, Status(TRUE, {f \in DirEntries : EndsWith(f, <<".md">>)}))
         ELSE Return(r, Status(FALSE, {}))
    /\ UNCHANGED <<now, dirExists, files, loc, ops, last>>

----------------------------------------------------------------------------
(* readMemoryBankFile *)

CallReadFile(r) ==
    /\ FreeSlot(r)
    /\ ops < MaxOps
    /\ \E input \in ReadInputs :
         LET fileName == IF input.given THEN input.file_name ELSE Undefined
             l == [NoLoc EXCEPT !.tool = "read", !.preDir = dirExists, !.preFiles = files,
                                !.given = input.given,
                                !.fileNameKind = Kind(input.file_name)]
         IN  IF ~Truthy(fileName) \/ ~IsString(fileName)
             THEN /\ loc' = [loc EXCEPT ![r] = l]
                  /\ Return(r, Failure(<<"Missing or invalid 'file_name' parameter.">>))
             ELSE /\ loc' = [loc EXCEPT ![r] =
                       [l EXCEPT !.fileName = fileName.s,
                                 !.filePath = PathJoin(MEMORY_BANK_PATH, fileName.s)]]
                  /\ pc' = [pc EXCEPT ![r] = "read_read"]
                  /\ UNCHANGED result
    /\ ops' = ops + 1
    /\ UNCHANGED <<now, dirExists, files, last>>

\* { content }
Content(fileContent) == [NoResult EXCEPT !.status = "content", !.content = fileContent]

\* await fs.readFile(filePath, 'utf-8') completes
ReadRead(r) ==
    /\ pc[r] = "read_read"
    /\ LET l == loc[r]
       IN  IF Exists(l.filePath)
           THEN \E ok \in BOOLEAN :
                  IF ok THEN Return(r, Content(files[l.filePath]))
                  ELSE Return(r, ReadFailure(l, "EACCES"))
           ELSE Return(r, ReadFailure(l, "ENOENT"))
    /\ UNCHANGED <<now, dirExists, files, loc, ops, last>>

----------------------------------------------------------------------------
(* appendMemoryBankEntry *)

\* the handler is called: it destructures and validates its input, builds the
\* entry, and runs to the await in ensureMemoryBankDir()
AppendEntryCalled(r, inputs) ==
    /\ FreeSlot(r)
    /\ ops < MaxOps
    /\ \E input \in inputs :
         LET l == [NoLoc EXCEPT !.tool = "append", !.preDir = dirExists, !.preFiles = files,
                                !.given = input.given,
                                !.fileNameKind = Kind(input.file_name),
                                !.entryKind = Kind(input.entry)]
             timestamp == getCurrentTimestamp(now)
         IN  IF ~input.given
             THEN \* const { ... } = input throws a TypeError, outside the try block
                  /\ loc' = [loc EXCEPT ![r] = l]
                  /\ Return(r, Rejected(<<"TypeError">>))
             ELSE IF ~Truthy(input.file_name) \/ ~IsString(input.file_name)
             THEN /\ loc' = [loc EXCEPT ![r] = l]
                  /\ Return(r, Failure(<<"Missing or invalid 'file_name' parameter.">>))
             ELSE IF ~Truthy(input.entry) \/ ~IsString(input.entry)
             THEN /\ loc' = [loc EXCEPT ![r] = l]
                  /\ Return(r, Failure(<<"Missing or invalid 'entry' parameter.">>))
             ELSE /\ loc' = [loc EXCEPT ![r] =
                       [l EXCEPT !.fileName = input.file_name.s,
                                 !.entry = input.entry.s,
                                 !.sectionHeader = input.section_header,
                                 !.filePath = PathJoin(MEMORY_BANK_PATH, input.file_name.s),
                                 !.timestamp = timestamp,
                                 !.formattedEntry = FormatEntry(timestamp, input.entry.s)]]
                  /\ pc' = [pc EXCEPT ![r] = "ensure_access"]
                  /\ UNCHANGED result
    /\ ops' = ops + 1
    /\ UNCHANGED <<now, dirExists, files, last>>

CallAppendEntry(r) == AppendEntryCalled(r, AppendInputs)

\* the text the splice starts from when readFile fails with ENOENT
StartingText(fileName, timestamp) ==
    IF fileName \in CanonicalNames
    THEN Replace(INITIAL_FILES(fileName), TimestampPlaceholder, timestamp)
    ELSE <<>>

\* with fileContent in hand the handler looks for the header and runs to the
\* await of writeFile or appendFile
AppendLocate(r, fileContent) ==
    LET l == loc[r]
        headerIndex == IndexOf(fileContent, l.sectionHeader.s, 0)
    IN  /\ loc' = [loc EXCEPT ![r] =
              [l EXCEPT !.fileContent = fileContent,
                        !.headerIndex = headerIndex,
                        !.content = IF headerIndex # -1
                                    THEN SpliceAtHeader(fileContent, l.sectionHeader.s,
                                                        l.formattedEntry, headerIndex)
                                    ELSE HeaderAndEntry(l.sectionHeader.s,
                                                        l.formattedEntry)]]
        /\ pc' = [pc EXCEPT ![r] = IF headerIndex # -1 THEN "append_write"
                                   ELSE "append_header"]
        /\ UNCHANGED result

\* await fs.readFile(filePath, 'utf-8') completes
AppendRead(r) ==
    /\ pc[r] = "append_read"
    /\ LET l == loc[r]
       IN  IF Exists(l.filePath)
           THEN \E ok \in BOOLEAN :
                  IF ok THEN AppendLocate(r, files[l.filePath])
                  ELSE \* an error other than ENOENT is thrown again
                       Return(r, AppendFailure(l, "EACCES")) /\ UNCHANGED loc
           ELSE AppendLocate(r, StartingText(l.fileName, l.timestamp))
    /\ UNCHANGED <<now, dirExists, files, ops, last>>

\* the handler returns after its write made the file hold post
AppendDone(r, post) ==
    LET l == loc[r]
    IN  /\ files' = WriteTo(l.filePath, post)
        /\ loc' = [loc EXCEPT ![r].written = post]
        /\ Return(r, Success(<<"Appended entry to ">> \o l.fileName, <<>>))

\* an awaited write of slot r completes: it gives the file the text post, or fails
AppendFinish(r, post) ==
    /\ \E ok \in BOOLEAN :
         IF ok /\ ParentExists(loc[r].filePath)
         THEN AppendDone(r, post)
         ELSE /\ Return(r, AppendFailure(loc[r], IF ok THEN "ENOENT" ELSE "EIO"))
              /\ UNCHANGED <<files, loc>>
    /\ UNCHANGED <<now, dirExists, ops, last>>

\* await fs.writeFile(filePath, updatedContent) completes
AppendWrite(r) ==
    /\ pc[r] = "append_write"
    /\ AppendFinish(r, loc[r].content)

\* await fs.appendFile(filePath, `\n${sectionHeader}\n${formattedEntry}`) completes
AppendHeader(r) ==
    /\ pc[r] = "append_header"
    /\ AppendFinish(r, CurrentText(loc[r].filePath) \o loc[r].content)

\* await fs.appendFile(filePath, formattedEntry) completes
AppendPlain(r) ==
    /\ pc[r] = "append_plain"
    /\ AppendFinish(r, CurrentText(loc[r].filePath) \o loc[r].formattedEntry)

----------------------------------------------------------------------------
(* The request handler *)

\* the default branch of the switch on the tool name
CallUnknownTool(r) ==
    /\ FreeSlot(r)
    /\ ops < MaxOps
    /\ loc' = [loc EXCEPT ![r] = [NoLoc EXCEPT !.tool = "unknown",
                                               !.preDir = dirExists,
                                               !.preFiles = files]]
    /\ Return(r, Failure(<<"Unknown tool: ", "other_tool">>))
    /\ ops' = ops + 1
    /\ UNCHANGED <<now, dirExists, files, last>>

\* the promise the handler returned has settled and the response is sent
Respond(r) ==
    /\ pc[r] = "done"
    /\ pc' = [pc EXCEPT ![r] = "idle"]
    /\ loc' = [loc EXCEPT ![r] = NoLoc]
    /\ result' = [result EXCEPT ![r] = NoResult]
    /\ last' = IF loc[r].tool = "append" /\ result[r].status = "success"
               THEN [valid |-> TRUE, filePath |-> loc[r].filePath,
                     sectionHeader |-> IF UsesHeader(loc[r].sectionHeader)
                                       THEN loc[r].sectionHeader.s ELSE <<>>,
                     entry |-> loc[r].entry, timestamp |-> loc[r].timestamp,
                     existed |-> loc[r].filePath \in DOMAIN loc[r].preFiles,
                     pre |-> PreText(loc[r]), post |-> loc[r].written]
               ELSE last
    /\ UNCHANGED <<now, dirExists, files, ops>>

\* a second passes
Tick ==
    /\ now < MaxClock
    /\ now' = now + 1
    /\ UNCHANGED <<dirExists, files, pc, loc, result, ops, last>>

\* no tool operation is in progress
Quiet == \A r \in Req : pc[r] = "idle"

Continue(r) ==
    \/ EnsureAccess(r) \/ EnsureMkdir(r)
    \/ InitAccess(r) \/ InitWrite(r)
    \/ StatusAccess(r) \/ StatusReaddir(r)
    \/ ReadRead(r)
    \/ AppendRead(r) \/ AppendWrite(r) \/ AppendHeader(r) \/ AppendPlain(r)
    \/ Respond(r)

Receive(r) ==
    \/ CallInitialize(r) \/ CallCheckStatus(r) \/ CallReadFile(r)
    \/ CallAppendEntry(r) \/ CallUnknownTool(r)

\* Requests arrive one at a time: the next one is received when the response
\* to the previous one has been sent.
Next ==
    \/ \E r \in Req : Quiet /\ CallInitialize(r)
    \/ \E r \in Req : Quiet /\ CallCheckStatus(r)
    \/ \E r \in Req : Quiet /\ CallReadFile(r)
    \/ \E r \in Req : Quiet /\ CallAppendEntry(r)
    \/ \E r \in Req : Quiet /\ CallUnknownTool(r)
    \/ \E r \in Req : Continue(r)
    \/ Tick

Spec == Init /\ [][Next]_vars

\* Requests arrive at any time: the handler starts each one when it is received.
NextAsync ==
    \/ \E r \in Req : Receive(r)
    \/ \E r \in Req : Continue(r)
    \/ Tick

SpecAsync == Init /\ [][NextAsync]_vars

\* Header-targeted appends, one at a time, on a file that holds one of several
\* texts: the runs of Spec that exercise the section splice, from more texts.
NextSplice ==
    \/ \E r \in Req : Quiet /\ AppendEntryCalled(r, SpliceInputs)
    \/ \E r \in Req : EnsureAccess(r)
    \/ \E r \in Req : AppendRead(r)
    \/ \E r \in Req : AppendWrite(r)
    \/ \E r \in Req : AppendHeader(r)
    \/ \E r \in Req : Respond(r)
    \/ Tick

InitSplice == StartOn(SpliceDisks)

SpecSplice == InitSplice /\ [][NextSplice]_vars

----------------------------------------------------------------------------
(* Vocabulary of the properties, stated on texts without the handlers' code *)

OccursAt(s, sub, i) == i + Len(sub) <= Len(s) /\ SubSeq(s, i + 1, i + Len(sub)) = sub

Contains(s, sub) == \E i \in 0..Len(s) : OccursAt(s, sub, i)

\* the least position >= from where sub occurs in s, or none
FirstOccurrence(s, sub, from) ==
    LET at == {i \in from..Len(s) : OccursAt(s, sub, i)}
    IN  IF at = {} THEN -1 ELSE CHOOSE i \in at : \A j \in at : i <= j

\* s without the whitespace at its end
WithoutTrailingSpace(s) ==
    LET k == CHOOSE n \in 0..Len(s) :
                 /\ n = 0 \/ s[n] \notin {" ", NL}
                 /\ \A j \in (n + 1)..Len(s) : s[j] \in {" ", NL}
    IN  SubSeq(s, 1, k)

\* "[<timestamp>] - <entry>\n"
EntryLine(timestamp, entry) == <<"[">> \o timestamp \o <<"]", " ", "-", " ">> \o entry \o <<NL>>

\* where a section that starts with the first H of T ends
SectionEnd(T, H) ==
    LET next == FirstOccurrence(T, <<NL, "#", "#">>, FirstOccurrence(T, H, 0) + Len(H))
    IN  IF next = -1 THEN Len(T) ELSE next

\* T with line put at position k, the text before it trimmed at its end
InsertedAt(T, k, line) ==
    WithoutTrailingSpace(SubSeq(T, 1, k)) \o <<NL>> \o line \o SubSeq(T, k + 1, Len(T))

\* slot r holds an append_entry call that has returned success
AppendSucceeded(r) ==
    pc[r] = "done" /\ loc[r].tool = "append" /\ result[r].status = "success"

\* the section_header of the call in slot r is a non-empty string
HeaderGiven(r) == loc[r].sectionHeader.t = "string" /\ loc[r].sectionHeader.s # <<>>

ExistedBefore(l) == l.filePath \in DOMAIN l.preFiles

----------------------------------------------------------------------------
(* C1: append_entry under a header H that occurs in the existing text T      *)
(* leaves exactly trimEnd(T[0:end]) + "\n" + "[<timestamp>] - <entry>\n" +   *)
(* T[end:], where end is the first "\n##" at or after the end of the first   *)
(* occurrence of H, or len(T).                                               *)

C1_SpliceUnderHeader ==
    \A r \in Req :
        LET l == loc[r]
            T == PreText(l)
            H == l.sectionHeader.s
        IN  (AppendSucceeded(r) /\ HeaderGiven(r) /\ ExistedBefore(l) /\ Contains(T, H))
            => files[l.filePath] =
                   InsertedAt(T, SectionEnd(T, H), EntryLine(l.timestamp, l.entry))

\* a call whose header occurs twice, is followed by another "\n##" header, and
\* whose section ends in whitespace
C1_Witness ==
    \E r \in Req :
        LET l == loc[r]
            T == PreText(l)
            H == l.sectionHeader.s
        IN  /\ AppendSucceeded(r) /\ HeaderGiven(r) /\ ExistedBefore(l)
            /\ Contains(T, H)
            /\ FirstOccurrence(T, H, FirstOccurrence(T, H, 0) + 1) # -1
            /\ SectionEnd(T, H) < Len(T)
            /\ T[SectionEnd(T, H)] \in {" ", NL}

----------------------------------------------------------------------------
(* C2 as stated: under a header H that does not occur in the existing text   *)
(* T the file becomes T + "\n" + H + "\n[<timestamp>] - <entry>\n", the      *)
(* entry line directly after the header line.                                *)

C2_NoBlankLine ==
    \A r \in Req :
        LET l == loc[r]
            T == PreText(l)
            H == l.sectionHeader.s
        IN  (AppendSucceeded(r) /\ HeaderGiven(r) /\ ExistedBefore(l) /\ ~Contains(T, H))
            => files[l.filePath] = T \o <<NL>> \o H \o <<NL>> \o EntryLine(l.timestamp, l.entry)

(* C2 amended: the file becomes T + "\n" + H + "\n" + "\n[<timestamp>] -     *)
(* <entry>\n": an empty line separates the header line from the entry line.  *)

C2_HeaderThenBlankLine ==
    \A r \in Req :
        LET l == loc[r]
            T == PreText(l)
            H == l.sectionHeader.s
        IN  (AppendSucceeded(r) /\ HeaderGiven(r) /\ ExistedBefore(l) /\ ~Contains(T, H))
            => files[l.filePath] =
                   T \o <<NL>> \o H \o <<NL, NL>> \o EntryLine(l.timestamp, l.entry)

C2_Witness ==
    \E r \in Req :
        LET l == loc[r]
        IN  /\ AppendSucceeded(r) /\ HeaderGiven(r) /\ ExistedBefore(l)
            /\ PreText(l) # <<>>
            /\ ~Contains(PreText(l), l.sectionHeader.s)

----------------------------------------------------------------------------
(* Two append_entry calls in a row on one file under one header H, the file  *)
(* holding a text T without H before the first, which added the entry e1;    *)
(* slot r holds the second, which has returned success.                      *)

SecondUnderSameHeader(r) ==
    /\ AppendSucceeded(r) /\ HeaderGiven(r)
    /\ last.valid /\ last.existed
    /\ last.filePath = loc[r].filePath
    /\ last.sectionHeader = loc[r].sectionHeader.s
    /\ ~Contains(last.pre, last.sectionHeader)
    /\ ExistedBefore(loc[r])
    /\ PreText(loc[r]) = last.post

\* the second call only put its line into the text R1 the first call left, at
\* some position k >= least: it wrote no header
OnlyLineInserted(r, least) ==
    LET l == loc[r]
        R1 == last.post
    IN  \E k \in least..Len(R1) :
            files[l.filePath] = InsertedAt(R1, k, EntryLine(l.timestamp, l.entry))

\* where the line of e1 ends in R1, which ends with that line
AfterFirstEntry == Len(last.post) - 1

\* the header the first call wrote is the first H of R1
WrittenHeaderIsFirst ==
    FirstOccurrence(last.post, last.sectionHeader, 0) = Len(last.pre) + 1

(* C3 as stated: for all T without H and all non-empty e1, e2, the second    *)
(* call writes no second H and puts the line of e2 after the whole line of   *)
(* e1.                                                                       *)

C3_SecondEntryAfterFirst ==
    \A r \in Req : SecondUnderSameHeader(r) => OnlyLineInserted(r, AfterFirstEntry)

(* C3 amended: the second call always finds the header and writes no second  *)
(* H; the line of e2 is after the whole line of e1 provided e1 does not      *)
(* contain "\n##" and H does not occur in T + "\n" + H before the position   *)
(* len(T)+1 where the first call wrote it.                                   *)

C3_SiblingUnlessEntryHoldsHeaderMark ==
    \A r \in Req :
        SecondUnderSameHeader(r)
        => /\ OnlyLineInserted(r, 0)
           /\ (~Contains(last.entry, <<NL, "#", "#">>) /\ WrittenHeaderIsFirst)
              => OnlyLineInserted(r, AfterFirstEntry)

C3_Witness ==
    \E r \in Req :
        /\ SecondUnderSameHeader(r)
        /\ ~Contains(last.entry, <<NL, "#", "#">>)
        /\ WrittenHeaderIsFirst
        /\ last.pre # <<>>
        /\ loc[r].entry # last.entry

----------------------------------------------------------------------------
(* C4: initialize on a directory with none of the five canonical files       *)
(* creates exactly those five, each non-empty; an initialize run when all    *)
(* five exist changes nothing and reports each as already existing, with or  *)
(* without project_brief_content; and initialize never changes a canonical   *)
(* file that exists when it is called.                                       *)

CanonicalPaths == {InBank(n) : n \in CanonicalNames}

InitializeSucceeded(r) ==
    pc[r] = "done" /\ loc[r].tool = "initialize" /\ result[r].status = "success"

AllReportedExisting(r) ==
    /\ Len(result[r].messages) = 5
    /\ \A n \in CanonicalNames :
           \E k \in 1..5 : result[r].messages[k] = <<"File ">> \o n \o <<" already exists.">>

C4_InitializeNonDestructive ==
    \A r \in Req :
        LET before == loc[r].preFiles
        IN  /\ (InitializeSucceeded(r) /\ CanonicalPaths \cap DOMAIN before = {})
               => /\ DOMAIN files = DOMAIN before \cup CanonicalPaths
                  /\ \A p \in CanonicalPaths : files[p] # <<>>
                  /\ \A p \in DOMAIN before : files[p] = before[p]
            /\ (InitializeSucceeded(r) /\ CanonicalPaths \subseteq DOMAIN before)
               => /\ files = before
                  /\ AllReportedExisting(r)
            /\ loc[r].tool = "initialize"
               => \A p \in CanonicalPaths \cap DOMAIN before :
                      p \in DOMAIN files /\ files[p] = before[p]

\* a second run, given a project brief, after the first created the five files
C4_Witness ==
    \E r \in Req :
        /\ InitializeSucceeded(r)
        /\ CanonicalPaths \subseteq DOMAIN loc[r].preFiles
        /\ loc[r].brief.t = "string"
        /\ loc[r].preFiles[InBank(ProductContextName)] = INITIAL_FILES(ProductContextName)

----------------------------------------------------------------------------
(* C5: append_entry with a valid file_name and entry and a section_header    *)
(* that is absent, empty or not a string leaves the previous text (empty if  *)
(* the file did not exist) followed by "\n[<timestamp>] - <entry>\n".        *)

NoHeaderGiven(r) ==
    LET h == loc[r].sectionHeader
    IN  h.t = "undefined" \/ (h.t = "string" /\ h.s = <<>>) \/ h.t # "string"

C5_PlainAppend ==
    \A r \in Req :
        LET l == loc[r]
        IN  (AppendSucceeded(r) /\ NoHeaderGiven(r))
            => /\ files[l.filePath] =
                      PreText(l) \o <<NL>> \o EntryLine(l.timestamp, l.entry)
               /\ l.headerIndex = -1 /\ l.fileContent = <<>>

\* a call whose section_header is a number, on a file that held a text
C5_Witness ==
    \E r \in Req :
        /\ AppendSucceeded(r)
        /\ loc[r].sectionHeader.t = "number"
        /\ PreText(loc[r]) # <<>>

----------------------------------------------------------------------------
(* C6: append_entry called with file_name or entry missing, empty or not a   *)
(* string returns an error result (status "error", error flag set) and       *)
(* performs no filesystem operation: the directory is not created and no     *)
(* file is created or changed.                                               *)

InvalidAppendCall(r) ==
    /\ loc[r].tool = "append"
    /\ pc[r] # "idle"
    /\ loc[r].fileNameKind # "ok" \/ loc[r].entryKind # "ok"

C6_ValidationErrorWithoutIO ==
    \A r \in Req :
        InvalidAppendCall(r)
        => /\ pc[r] = "done"
           /\ result[r].status = "error" /\ result[r].isError
           /\ dirExists = loc[r].preDir
           /\ files = loc[r].preFiles

----------------------------------------------------------------------------
(* C7: whatever the arguments (no argument object included) and whatever     *)
(* the filesystem does, each of the four operations returns a well-formed    *)
(* result: a failure is a result with status "error" and a message,          *)
(* check_status degrades to exists=false with no files, and read_file of a   *)
(* file that does not exist is an error result whose message contains the    *)
(* file name.  No failure escapes the operation.                             *)

WellFormed(r) ==
    LET l == loc[r]
        res == result[r]
    IN  CASE l.tool = "initialize" ->
               \/ res.status = "success" /\ ~res.isError
               \/ res.status = "error" /\ res.isError /\ res.message # <<>>
          [] l.tool = "status" ->
               /\ res.status = "status" /\ ~res.isError
               /\ ~res.exists => res.files = {}
          [] l.tool = "read" ->
               \/ res.status = "content" /\ ~res.isError
               \/ res.status = "error" /\ res.isError /\ res.message # <<>>
          [] l.tool = "append" ->
               \/ res.status = "success" /\ ~res.isError
               \/ res.status = "error" /\ res.isError /\ res.message # <<>>
          [] OTHER -> res.status = "error" /\ res.isError

C7_NoFailureEscapes ==
    \A r \in Req :
        pc[r] = "done"
        => /\ WellFormed(r)
           /\ (loc[r].tool = "read" /\ loc[r].fileNameKind = "ok"
                 /\ loc[r].filePath \notin DOMAIN files)
              => /\ result[r].status = "error"
                 /\ Contains(result[r].message, loc[r].fileName)

----------------------------------------------------------------------------
(* C8: every file that read_file reads and every file that append_entry      *)
(* creates or writes lies inside the memory-bank directory, whatever         *)
(* file_name the caller gives.                                               *)

InsideMemoryBank(p) ==
    /\ Len(p) > Len(MEMORY_BANK_PATH)
    /\ SubSeq(p, 1, Len(MEMORY_BANK_PATH)) = MEMORY_BANK_PATH

AwaitsFile(r) ==
    pc[r] \in {"read_read", "append_read", "append_write", "append_header", "append_plain"}

C8_NoPathEscape ==
    /\ \A r \in Req : AwaitsFile(r) => InsideMemoryBank(loc[r].filePath)
    /\ \A p \in DOMAIN files : InsideMemoryBank(p)

----------------------------------------------------------------------------
(* C9: append_entry under a header H on a file that does not exist leaves    *)
(* the section splice applied to a starting text S, the template of          *)
(* file_name if it is canonical and the empty text otherwise: the template   *)
(* is in the created file whether or not H occurs in it.                     *)

SectionSplice(S, H, timestamp, entry) ==
    IF Contains(S, H)
    THEN InsertedAt(S, SectionEnd(S, H), EntryLine(timestamp, entry))
    ELSE S \o <<NL>> \o H \o <<NL, NL>> \o EntryLine(timestamp, entry)

C9_MissingFileStartsFromTemplate ==
    \A r \in Req :
        LET l == loc[r]
            S == IF l.fileName \in CanonicalNames THEN INITIAL_FILES(l.fileName) ELSE <<>>
        IN  (AppendSucceeded(r) /\ HeaderGiven(r) /\ ~ExistedBefore(l))
            => files[l.filePath] = SectionSplice(S, l.sectionHeader.s, l.timestamp, l.entry)

----------------------------------------------------------------------------
(* C10: at most one tool operation is in progress at any time: once the      *)
(* handler has started one, no other starts until it has completed, also     *)
(* while it is suspended on an awaited filesystem call.                      *)

Started(r) == pc[r] # "idle"

C10_OneOperationAtATime ==
    \A r, q \in Req : (Started(r) /\ Started(q)) => r = q

====
